---- MODULE Spec2Model ----
(***************************************************************************)
(* A model of preseed_install.py: the boot-file extraction pipeline        *)
(* (qemu-img convert -> fdisk listing -> dd -> debugfs stat/dump), the     *)
(* partition-table parser and the ISO file extractor.                      *)
(*                                                                         *)
(* Text is modelled as sequences of one-character strings, so that the     *)
(* regular expressions of the source are matched character by character.   *)
(* A call of a Python function is one action; the outcome of every         *)
(* external tool the call runs is an input of the action.                  *)
(***************************************************************************)
EXTENDS Integers, Sequences, FiniteSets, TLC

\* ---------------------------------------------------------------- bounds

\* Longest list of lines that follows the preamble in a modelled fdisk listing.
MaxRows == 2

\* Longest standard output of the ISO reader tool, in bytes.
MaxBytes == 4

\* How many times in a row the caller invokes an operation.
MaxCalls == 2

\* ------------------------------------------------- regular expressions (re)

\* One element of a pattern: a character class with a greedy quantifier
\* {min,max}.  A literal character is the class holding it, {1,1}.
Lit(c) == [cls |-> c, min |-> 1, max |-> 1]

\* Upper limit standing for an unbounded quantifier; longer than any line.
Unbounded == 64

Plus(cls) == [cls |-> cls, min |-> 1, max |-> Unbounded]

Optional(cls) == [cls |-> cls, min |-> 0, max |-> 1]

\* Python's str.isspace characters that occur in the modelled text.
IsSpace(c) == c \in {" ", "\t"}

IsDigit(c) == c \in {"0", "1", "2", "3", "4", "5", "6", "7", "8", "9"}

\* Class membership: "." (any character of a line), "\s", "[0-9]", or a literal.
InClass(c, cls) ==
    CASE cls = "." -> TRUE
      [] cls = "\\s" -> IsSpace(c)
      [] cls = "[0-9]" -> IsDigit(c)
      [] OTHER -> c = cls

\* The result of a failed match.
NoMatch == <<-1>>

\* Number of characters from position pos on that are in cls, at most max.
RECURSIVE Run(_, _, _, _)
Run(line, pos, cls, max) ==
    IF max = 0 \/ pos > Len(line) \/ ~InClass(line[pos], cls)
    THEN 0
    ELSE 1 + Run(line, pos + 1, cls, max - 1)

\* re.fullmatch by backtracking: element k of the pattern, tried at position
\* pos with its longest run first, then shorter ones.  The result is the
\* sequence of end positions of elements k.. of the pattern (the first match
\* in backtracking order, as Python returns it), or NoMatch.
RECURSIVE MatchFrom(_, _, _, _)
RECURSIVE TryCount(_, _, _, _, _)
TryCount(pat, k, line, pos, cnt) ==
    IF cnt < pat[k].min
    THEN NoMatch
    ELSE LET rest == MatchFrom(pat, k + 1, line, pos + cnt)
         IN  IF rest # NoMatch
             THEN <<pos + cnt - 1>> \o rest
             ELSE TryCount(pat, k, line, pos, cnt - 1)

MatchFrom(pat, k, line, pos) ==
    IF k > Len(pat)
    THEN IF pos = Len(line) + 1 THEN <<>> ELSE NoMatch
    ELSE TryCount(pat, k, line, pos, Run(line, pos, pat[k].cls, pat[k].max))

FullMatch(pat, line) == MatchFrom(pat, 1, line, 1)

\* The characters of line from position a to position b.
Slice(line, a, b) == [i \in 1..(b - a + 1) |-> line[a + i - 1]]

\* ------------------------------------------------------ str and int helpers

\* str.strip(): leading and trailing whitespace removed.
RECURSIVE LStrip(_)
LStrip(s) == IF s # <<>> /\ IsSpace(Head(s)) THEN LStrip(Tail(s)) ELSE s

RECURSIVE RStrip(_)
RStrip(s) ==
    IF s # <<>> /\ IsSpace(s[Len(s)]) THEN RStrip(SubSeq(s, 1, Len(s) - 1)) ELSE s

Strip(s) == RStrip(LStrip(s))

DigitValue(c) ==
    CASE c = "0" -> 0 [] c = "1" -> 1 [] c = "2" -> 2 [] c = "3" -> 3
      [] c = "4" -> 4 [] c = "5" -> 5 [] c = "6" -> 6 [] c = "7" -> 7
      [] c = "8" -> 8 [] c = "9" -> 9

\* int() of a string of decimal digits.
RECURSIVE ToInt(_)
ToInt(s) ==
    IF s = <<>> THEN 0
    ELSE 10 * ToInt(SubSeq(s, 1, Len(s) - 1)) + DigitValue(s[Len(s)])

\* bool() of a string: the empty string is false.
ToBool(s) == s # <<>>

\* ------------------------------------------------ list_partitions: patterns

Word(s) == [i \in 1..Len(s) |-> Lit(s[i])]

\* header_regexp: Type\s+Start\s+Sectors\s+Boot
header_regexp ==
    Word(<<"T", "y", "p", "e">>) \o <<Plus("\\s")>>
    \o Word(<<"S", "t", "a", "r", "t">>) \o <<Plus("\\s")>>
    \o Word(<<"S", "e", "c", "t", "o", "r", "s">>) \o <<Plus("\\s")>>
    \o Word(<<"B", "o", "o", "t">>)

\* data_regexp: (?P<Type>.+)\s+(?P<Start>[0-9]+)\s+(?P<Sectors>[0-9]+)\s+(?P<Boot>\*{0,1})
data_regexp ==
    <<Plus("."), Plus("\\s"), Plus("[0-9]"), Plus("\\s"), Plus("[0-9]"),
      Plus("\\s"), Optional("*")>>

\* match.groupdict() of a data_regexp match m on line.
GroupDict(line, m) ==
    [Type    |-> Slice(line, 1, m[1]),
     Start   |-> Slice(line, m[2] + 1, m[3]),
     Sectors |-> Slice(line, m[4] + 1, m[5]),
     Boot    |-> Slice(line, m[6] + 1, m[7])]

\* The Partition built from a matched data row: the postprocessors applied to
\* the groups, with the sector size of the table.
MakePartition(line, m, sector_size) ==
    LET g == GroupDict(line, m)
    IN  [type            |-> Strip(g.Type),
         sector_size     |-> sector_size,
         start_sector    |-> ToInt(g.Start),
         size_in_sectors |-> ToInt(g.Sectors),
         bootable        |-> ToBool(g.Boot)]

\* ------------------------------------------------------ paths and the files

\* A path as the caller writes it: absolute or relative to the working
\* directory, the directories leading to the file, and the file name split at
\* its last dot as os.path.splitext splits it.
NoPath == [abs |-> FALSE, dir |-> <<>>, stem |-> "", ext |-> ""]

\* The working directory of the process.
Cwd == <<"cwd">>

\* The directories that exist before a call.
InitialDirs == {<<>>, Cwd, Cwd \o <<"images">>, <<"data">>}

\* The image paths a caller passes: a bare file name, a relative path with a
\* directory, an absolute path.
ImagePaths ==
    {[abs |-> FALSE, dir |-> <<>>, stem |-> "disk", ext |-> ".qcow2"],
     [abs |-> FALSE, dir |-> <<"images">>, stem |-> "disk", ext |-> ".qcow2"],
     [abs |-> TRUE, dir |-> <<"data">>, stem |-> "disk", ext |-> ".qcow2"]}

\* The file a path names: its directories from the root.
Key(p) ==
    [dir  |-> IF p.abs THEN p.dir ELSE Cwd \o p.dir,
     stem |-> p.stem,
     ext  |-> p.ext]

\* os.path.splitext(p)[0] + ext
WithExt(p, ext) == [p EXCEPT !.ext = ext]

\* os.path.dirname(os.path.realpath(p))
RealDir(p) == Key(p).dir

\* os.path.join(d, p) for an absolute directory d: an absolute p discards d.
Join(d, p) ==
    IF p.abs THEN p
    ELSE [abs |-> TRUE, dir |-> d \o p.dir, stem |-> p.stem, ext |-> p.ext]

\* os.path.exists
Exists(fs, p) == Key(p) \in DOMAIN fs

IsPrefix(d, e) == Len(d) <= Len(e) /\ SubSeq(e, 1, Len(d)) = d

\* The files left when directory d is removed recursively.
RemoveTree(fs, d) ==
    [k \in {k \in DOMAIN fs : ~IsPrefix(d, k.dir)} |-> fs[k]]

\* ------------------------------------------------------------------ errors

EmptyStdout == [has_link |-> FALSE, tokens |-> <<>>]

\* An exception: its kind (the message, or the exception class), the path or
\* the line the message names, and what a CalledProcessError carries.
Err(kind, path, text) ==
    [kind |-> kind, path |-> path, text |-> text,
     returncode |-> 0, stdout |-> EmptyStdout, stderr |-> ""]

NoErr == Err("", NoPath, <<>>)

FileNotFound(p) == Err("file not found", p, <<>>)

AlreadyExists(p) == Err("already exists", p, <<>>)

CalledProcessError(tool, returncode, stdout, stderr) ==
    [kind |-> "CalledProcessError", path |-> NoPath, text |-> <<tool>>,
     returncode |-> returncode, stdout |-> stdout, stderr |-> stderr]

\* --------------------------------------------------------- external tools

\* One invocation of an external tool, with the arguments that matter.
\* exit and stderr are what the tool answered.
Invocation(tool, src, dst) ==
    [tool |-> tool, src |-> src, dst |-> dst,
     bs |-> 0, skip |-> 0, count |-> 0, verb |-> "", target |-> "",
     exit |-> 0, stderr |-> ""]

\* What one run of a tool did: its exit status, what it printed, and whether
\* it left its output file behind (a failed tool may leave a partial one).
Outcome(exit, stdout, stderr, wrote) ==
    [exit |-> exit, stdout |-> stdout, stderr |-> stderr, wrote |-> wrote]

WriteOk == Outcome(0, EmptyStdout, "", TRUE)

\* The outcomes of qemu-img and dd.
WriteOutcomes ==
    {WriteOk,
     Outcome(1, EmptyStdout, "", FALSE),
     Outcome(1, EmptyStdout, "", TRUE)}

\* No tool creates a file in a directory that does not exist: it fails.
Effective(o, dirs, dst) ==
    IF Key(dst).dir \in dirs THEN o ELSE [o EXCEPT !.exit = 1, !.wrote = FALSE]

\* The files after a tool ran with outcome o on destination dst.
Written(fs, dirs, dst, o) ==
    IF Effective(o, dirs, dst).wrote THEN (Key(dst) :> "new") @@ fs ELSE fs

\* The invocation inv as it ended with outcome o.
Ended(inv, o) == [inv EXCEPT !.exit = o.exit, !.stderr = o.stderr]

\* The result of an operation: the files afterwards, the exception raised
\* (NoErr when it returned) and the tools it ran, in order.
Result(fs, err, ran) == [files |-> fs, err |-> err, ran |-> ran]

\* ----------------------------------------------------- the fdisk listing

\* What "/sbin/fdisk -l -o Type,Start,Sectors,Boot" printed: its exit status,
\* the two preamble lines the parser looks for (absent, or with the numbers
\* as printed) and the lines that follow the preamble.
D512 == <<"5", "1", "2">>

D1024 == <<"1", "0", "2", "4">>

D4096 == <<"4", "0", "9", "6">>

Preamble(has_sector, logical, physical, has_units, units) ==
    [has_sector |-> has_sector, logical |-> logical, physical |-> physical,
     has_units |-> has_units, units |-> units]

Preambles ==
    {Preamble(TRUE, D512, D512, TRUE, D512),
     Preamble(TRUE, D4096, D4096, TRUE, D4096),
     Preamble(TRUE, D512, D1024, TRUE, D512),
     Preamble(TRUE, D512, D512, TRUE, D1024),
     Preamble(TRUE, D1024, D1024, TRUE, D512),
     Preamble(FALSE, <<>>, <<>>, TRUE, D512),
     Preamble(TRUE, D512, D512, FALSE, <<>>)}

HeaderLine ==
    <<"T", "y", "p", "e", " ", " ", "S", "t", "a", "r", "t", " ",
      "S", "e", "c", "t", "o", "r", "s", " ", "B", "o", "o", "t">>

BlankLine == <<>>

\* "Linux 2 8 *"
RowLinuxBoot == <<"L", "i", "n", "u", "x", " ", "2", " ", "8", " ", "*">>

\* "Linux  40 16 *"
RowLinuxBoot2 ==
    <<"L", "i", "n", "u", "x", " ", " ", "4", "0", " ", "1", "6", " ", "*">>

\* "Linux 2 8 " (no boot marker, the column padded)
RowLinuxPadded == <<"L", "i", "n", "u", "x", " ", "2", " ", "8", " ">>

\* "Linux 2 8" (no boot marker, nothing after the sector count)
RowLinuxBare == <<"L", "i", "n", "u", "x", " ", "2", " ", "8">>

\* "Linux swap 1 4 *"
RowSwapBoot ==
    <<"L", "i", "n", "u", "x", " ", "s", "w", "a", "p", " ", "1", " ", "4",
      " ", "*">>

RowSamples ==
    {RowLinuxBoot, RowLinuxBoot2, RowLinuxPadded, RowLinuxBare, RowSwapBoot,
     BlankLine, HeaderLine}

\* The sequences over S of length at most n.
RECURSIVE SeqsUpTo(_, _)
SeqsUpTo(S, n) ==
    IF n = 0 THEN {<<>>}
    ELSE LET shorter == SeqsUpTo(S, n - 1)
         IN  shorter \cup {Append(s, x) : s \in {t \in shorter : Len(t) = n - 1}, x \in S}

FdiskFailed ==
    [exit |-> 1, pre |-> Preamble(FALSE, <<>>, <<>>, FALSE, <<>>), lines |-> <<>>]

\* The listings: a first line (the table header, or a blank line when the
\* image has no table header there) and at most MaxRows further lines.
FdiskOutputs ==
    {FdiskFailed} \cup
    {[exit |-> 0, pre |-> pre, lines |-> <<first>> \o rows] :
        pre \in Preambles, first \in {HeaderLine, BlankLine},
        rows \in SeqsUpTo(RowSamples, MaxRows)}

\* The listings the whole pipeline is run on.
PipelineFdiskOutputs ==
    {FdiskFailed} \cup
    {[exit |-> 0, pre |-> Preamble(TRUE, D512, D512, TRUE, D512),
      lines |-> <<HeaderLine>> \o rows] :
        rows \in {<<RowLinuxBoot>>, <<RowSwapBoot>>, <<RowLinuxBare>>}}

\* parse_fdisk_sector_size without the comparison of the two sizes.
parse_fdisk_sector_size_unchecked(out) ==
    IF ~out.pre.has_sector
    THEN [err |-> Err("can't parse partition table sector size", NoPath, <<>>),
          value |-> 0]
    ELSE [err |-> NoErr, value |-> ToInt(out.pre.logical)]

\* parse_fdisk_sector_size: the exception raised (NoErr when none) and the value.
parse_fdisk_sector_size(out) ==
    IF ~out.pre.has_sector
    THEN [err |-> Err("can't parse partition table sector size", NoPath, <<>>),
          value |-> 0]
    ELSE IF out.pre.logical # out.pre.physical
    THEN [err |-> Err("partition table logical and physical sector sizes differ",
                      NoPath, out.pre.logical \o <<"!=">> \o out.pre.physical),
          value |-> 0]
    ELSE [err |-> NoErr, value |-> ToInt(out.pre.logical)]

\* parse_fdisk_units
parse_fdisk_units(out) ==
    IF ~out.pre.has_units
    THEN [err |-> Err("can't parse partition table units", NoPath, <<>>), value |-> 0]
    ELSE [err |-> NoErr, value |-> ToInt(out.pre.units)]

\* The loop of list_partitions passing over a row it cannot parse.
RECURSIVE ScanLinesSkipping(_, _, _, _, _)
ScanLinesSkipping(lines, i, in_list, sector_size, yielded) ==
    IF i > Len(lines)
    THEN [yielded |-> yielded, err |-> NoErr]
    ELSE IF FullMatch(header_regexp, lines[i]) # NoMatch
    THEN ScanLinesSkipping(lines, i + 1, TRUE, sector_size, yielded)
    ELSE IF in_list /\ FullMatch(data_regexp, lines[i]) # NoMatch
    THEN ScanLinesSkipping(lines, i + 1, in_list, sector_size,
                           Append(yielded,
                                  MakePartition(lines[i], FullMatch(data_regexp, lines[i]),
                                                sector_size)))
    ELSE ScanLinesSkipping(lines, i + 1, in_list, sector_size, yielded)

\* The loop of list_partitions over the lines from line i on: the records
\* yielded, in order, and the exception that ends the iteration (NoErr when
\* the lines are exhausted).
RECURSIVE ScanLines(_, _, _, _, _)
ScanLines(lines, i, in_list, sector_size, yielded) ==
    IF i > Len(lines)
    THEN [yielded |-> yielded, err |-> NoErr]
    ELSE IF FullMatch(header_regexp, lines[i]) # NoMatch
    THEN ScanLines(lines, i + 1, TRUE, sector_size, yielded)
    ELSE IF in_list
    THEN LET m == FullMatch(data_regexp, lines[i])
         IN  IF m = NoMatch
             THEN [yielded |-> yielded,
                   err |-> Err("unable to parse partition line", NoPath, lines[i])]
             ELSE ScanLines(lines, i + 1, in_list, sector_size,
                            Append(yielded, MakePartition(lines[i], m, sector_size)))
    ELSE ScanLines(lines, i + 1, in_list, sector_size, yielded)

FdiskInvocation(image, out) ==
    [Invocation("fdisk", image, NoPath) EXCEPT !.exit = out.exit]

\* list_partitions, iterated to its end: the records the generator yields
\* before it finishes or raises, the exception, and the tools run.
list_partitions(fs, image_filename, out) ==
    IF ~Exists(fs, image_filename)
    THEN [yielded |-> <<>>, err |-> FileNotFound(image_filename), ran |-> <<>>]
    ELSE LET ran == <<FdiskInvocation(image_filename, out)>>
             sector_size == parse_fdisk_sector_size(out)
             units == parse_fdisk_units(out)
         IN  IF out.exit # 0
             THEN [yielded |-> <<>>, ran |-> ran,
                   err |-> CalledProcessError("fdisk", out.exit, EmptyStdout, "")]
             ELSE IF sector_size.err # NoErr
             THEN [yielded |-> <<>>, err |-> sector_size.err, ran |-> ran]
             ELSE IF units.err # NoErr
             THEN [yielded |-> <<>>, err |-> units.err, ran |-> ran]
             ELSE IF sector_size.value # units.value
             THEN [yielded |-> <<>>, ran |-> ran,
                   err |-> Err("partition table sector size and unit size differ",
                               NoPath, out.pre.logical \o <<"!=">> \o out.pre.units)]
             ELSE LET scan == ScanLines(out.lines, 1, FALSE, sector_size.value, <<>>)
                  IN  [yielded |-> scan.yielded, err |-> scan.err, ran |-> ran]

\* ------------------------------------------- create_image and image_to_raw

\* create_image
create_image(fs, dirs, filename, o) ==
    IF Exists(fs, filename)
    THEN Result(fs, AlreadyExists(filename), <<>>)
    ELSE Result(Written(fs, dirs, filename, o),
                IF Effective(o, dirs, filename).exit # 0
                THEN CalledProcessError("qemu-img", 1, EmptyStdout, "")
                ELSE NoErr,
                <<Ended(Invocation("qemu-img create", NoPath, filename),
                        Effective(o, dirs, filename))>>)

\* image_to_raw
image_to_raw(fs, dirs, input_filename, output_filename, o) ==
    IF ~Exists(fs, input_filename)
    THEN Result(fs, FileNotFound(input_filename), <<>>)
    ELSE IF Exists(fs, output_filename)
    THEN Result(fs, AlreadyExists(output_filename), <<>>)
    ELSE Result(Written(fs, dirs, output_filename, o),
                IF Effective(o, dirs, output_filename).exit # 0
                THEN CalledProcessError("qemu-img", 1, EmptyStdout, "")
                ELSE NoErr,
                <<Ended(Invocation("qemu-img convert", input_filename, output_filename),
                        Effective(o, dirs, output_filename))>>)

\* ---------------------------------------------------- extract_boot_partition

\* The dd command line of extract_boot_partition for a partition.
DdInvocation(image_filename, output_filename, partition) ==
    [Invocation("dd", image_filename, output_filename) EXCEPT
        !.bs = partition.sector_size,
        !.skip = partition.start_sector,
        !.count = partition.size_in_sectors]

\* partition.type == "Linux" and partition.bootable
IsBootableLinux(partition) ==
    partition.type = <<"L", "i", "n", "u", "x">> /\ partition.bootable

\* The index of the last bootable Linux record instead of the first.
LastBootableLinux(partitions) ==
    IF \E i \in 1..Len(partitions) : IsBootableLinux(partitions[i])
    THEN CHOOSE i \in 1..Len(partitions) :
            /\ IsBootableLinux(partitions[i])
            /\ \A j \in (i + 1)..Len(partitions) : ~IsBootableLinux(partitions[j])
    ELSE 0

\* The index of the first record of a sequence that is a bootable Linux
\* partition, 0 when there is none.
FirstBootableLinux(partitions) ==
    IF \E i \in 1..Len(partitions) : IsBootableLinux(partitions[i])
    THEN CHOOSE i \in 1..Len(partitions) :
            /\ IsBootableLinux(partitions[i])
            /\ \A j \in 1..(i - 1) : ~IsBootableLinux(partitions[j])
    ELSE 0

\* The for loop of extract_boot_partition over the generator listing: it
\* takes records one at a time and returns at the first bootable Linux one,
\* so an exception the generator would raise later is never raised.
CopyFirstBootable(fs, dirs, image_filename, output_filename, listing, o) ==
    LET found == FirstBootableLinux(listing.yielded)
    IN  IF found # 0
        THEN Result(Written(fs, dirs, output_filename, o),
                    IF Effective(o, dirs, output_filename).exit # 0
                    THEN CalledProcessError("dd", 1, EmptyStdout, "")
                    ELSE NoErr,
                    listing.ran \o
                    <<Ended(DdInvocation(image_filename, output_filename,
                                         listing.yielded[found]),
                            Effective(o, dirs, output_filename))>>)
        ELSE IF listing.err # NoErr
        THEN Result(fs, listing.err, listing.ran)
        ELSE Result(fs, Err("no bootable Linux partition found", NoPath, <<>>),
                    listing.ran)

\* extract_boot_partition
extract_boot_partition(fs, dirs, image_filename, output_filename, out, o) ==
    IF ~Exists(fs, image_filename)
    THEN Result(fs, FileNotFound(image_filename), <<>>)
    ELSE IF Exists(fs, output_filename)
    THEN Result(fs, AlreadyExists(output_filename), <<>>)
    ELSE CopyFirstBootable(fs, dirs, image_filename, output_filename,
                           list_partitions(fs, image_filename, out), o)

\* ------------------------------------------------------------------ debugfs

\* A debugfs command: "stat <target>" or "dump <target> <dst>".
Stat(target) == [verb |-> "stat", target |-> target, dst |-> NoPath]

Dump(target, dst) == [verb |-> "dump", target |-> target, dst |-> dst]

\* The standard output of "stat" on a symbolic link: the line
\* 'Fast link dest: "..."' is there, and shlex.split of its quoted part gives
\* these tokens.
LinkStdout(tokens) == [has_link |-> TRUE, tokens |-> tokens]

\* The outcomes of a debugfs "stat": the link printed; a non-zero exit; the
\* link printed with something on standard error; no link line, with or
\* without a message on standard error; a quoted part of two tokens.
StatOk == Outcome(0, LinkStdout(<<"boot/file">>), "", FALSE)

StatOutcomes ==
    {StatOk,
     Outcome(1, EmptyStdout, "debugfs: error", FALSE),
     Outcome(0, LinkStdout(<<"boot/file">>), "debugfs: error", FALSE),
     Outcome(0, EmptyStdout, "debugfs: error", FALSE),
     Outcome(0, EmptyStdout, "", FALSE),
     Outcome(0, LinkStdout(<<"boot", "file">>), "", FALSE)}

\* The outcomes of a debugfs "dump": done; failed with a non-zero exit, or
\* with exit status zero and a message on standard error, each with or
\* without a partial output file.
DumpOk == Outcome(0, EmptyStdout, "", TRUE)

DumpOutcomes ==
    {DumpOk,
     Outcome(1, EmptyStdout, "debugfs: error", FALSE),
     Outcome(1, EmptyStdout, "debugfs: error", TRUE),
     Outcome(0, EmptyStdout, "debugfs: error", FALSE),
     Outcome(0, EmptyStdout, "debugfs: error", TRUE)}

\* debugfs_command: the files afterwards, the exception, the standard output
\* returned and the invocation.
debugfs_command(fs, dirs, partition_filename, command, o) ==
    IF ~Exists(fs, partition_filename)
    THEN [files |-> fs, err |-> FileNotFound(partition_filename),
          stdout |-> EmptyStdout, ran |-> <<>>]
    ELSE [files  |-> IF command.verb = "dump"
                     THEN Written(fs, dirs, command.dst, o)
                     ELSE fs,
          err    |-> IF o.exit # 0
                     THEN CalledProcessError("debugfs", o.exit, o.stdout, o.stderr)
                     ELSE NoErr,
          stdout |-> o.stdout,
          ran    |-> <<[Ended(Invocation("debugfs", partition_filename, command.dst), o)
                        EXCEPT !.verb = command.verb, !.target = command.target]>>]

\* parse_symlink_target: the exception (NoErr when none) and the target.
parse_symlink_target(debugfs_output) ==
    IF ~debugfs_output.has_link \/ Len(debugfs_output.tokens) # 1
    THEN [err |-> Err("can't parse symlink target", NoPath, <<>>), value |-> ""]
    ELSE [err |-> NoErr, value |-> debugfs_output.tokens[1]]

\* The outcomes of the tools one call runs, in the order it runs them.
Env(convert, fdisk, dd, stat1, stat2, dump1, dump2) ==
    [convert |-> convert, fdisk |-> fdisk, dd |-> dd,
     stat1 |-> stat1, stat2 |-> stat2, dump1 |-> dump1, dump2 |-> dump2]

\* parse_symlink_target(debugfs_command(partition, "stat <link>")) on the
\* answer s of the debugfs_command: the exception of either, the target, and
\* the invocation.
ResolveLink(s) ==
    [err   |-> IF s.err # NoErr THEN s.err ELSE parse_symlink_target(s.stdout).err,
     value |-> parse_symlink_target(s.stdout).value,
     ran   |-> s.ran]

\* The second dump: the last statement of extract_partition_boot_files, after
\* the tools in ran; d2 is what its debugfs_command did.
DumpInitrd(ran, d2) == Result(d2.files, d2.err, ran \o d2.ran)

\* The first dump, d1, and the statement after it.
DumpKernel(dirs, partition_filename, output_initrd_filename, env, ran, initrd, d1) ==
    IF d1.err # NoErr
    THEN Result(d1.files, d1.err, ran \o d1.ran)
    ELSE DumpInitrd(ran \o d1.ran,
                    debugfs_command(d1.files, dirs, partition_filename,
                                    Dump(initrd.value, output_initrd_filename),
                                    env.dump2))

\* The statements after the link /initrd.img is resolved to initrd.
AfterInitrdLink(fs, dirs, partition_filename, output_kernel_filename, output_initrd_filename, env, kernel, initrd) ==
    IF initrd.err # NoErr
    THEN Result(fs, initrd.err, kernel.ran \o initrd.ran)
    ELSE DumpKernel(dirs, partition_filename, output_initrd_filename, env,
                    kernel.ran \o initrd.ran, initrd,
                    debugfs_command(fs, dirs, partition_filename,
                                    Dump(kernel.value, output_kernel_filename),
                                    env.dump1))

\* The statements after the link /vmlinuz is resolved to kernel.
AfterKernelLink(fs, dirs, partition_filename, output_kernel_filename, output_initrd_filename, env, kernel) ==
    IF kernel.err # NoErr
    THEN Result(fs, kernel.err, kernel.ran)
    ELSE AfterInitrdLink(fs, dirs, partition_filename, output_kernel_filename,
                         output_initrd_filename, env, kernel,
                         ResolveLink(debugfs_command(fs, dirs, partition_filename,
                                                     Stat("/initrd.img"), env.stat2)))

\* extract_partition_boot_files checking the kernel destination only.
extract_partition_boot_files_kernel_check_only(fs, dirs, partition_filename, output_kernel_filename, output_initrd_filename, env) ==
    IF ~Exists(fs, partition_filename)
    THEN Result(fs, FileNotFound(partition_filename), <<>>)
    ELSE IF Exists(fs, output_kernel_filename)
    THEN Result(fs, AlreadyExists(output_kernel_filename), <<>>)
    ELSE AfterKernelLink(fs, dirs, partition_filename, output_kernel_filename,
                         output_initrd_filename, env,
                         ResolveLink(debugfs_command(fs, dirs, partition_filename,
                                                     Stat("/vmlinuz"), env.stat1)))

\* extract_partition_boot_files
extract_partition_boot_files(fs, dirs, partition_filename, output_kernel_filename, output_initrd_filename, env) ==
    IF ~Exists(fs, partition_filename)
    THEN Result(fs, FileNotFound(partition_filename), <<>>)
    ELSE IF Exists(fs, output_kernel_filename)
    THEN Result(fs, AlreadyExists(output_kernel_filename), <<>>)
    ELSE IF Exists(fs, output_initrd_filename)
    THEN Result(fs, AlreadyExists(output_initrd_filename), <<>>)
    ELSE AfterKernelLink(fs, dirs, partition_filename, output_kernel_filename,
                         output_initrd_filename, env,
                         ResolveLink(debugfs_command(fs, dirs, partition_filename,
                                                     Stat("/vmlinuz"), env.stat1)))

\* -------------------------------------------------------- extract_boot_files

\* The name tempfile.TemporaryDirectory gives the directory it creates.
TmpName == "tmp"

\* tmp_dir: the temporary directory, created in the directory of the image.
TmpDir(image_filename) == RealDir(image_filename) \o <<TmpName>>

\* raw_filename
RawFilename(image_filename) ==
    Join(TmpDir(image_filename), WithExt(image_filename, ".raw"))

\* partition_filename
PartitionFilename(image_filename) ==
    Join(TmpDir(image_filename), WithExt(image_filename, ".bootable"))

\* The result of statement r followed by statement s, when r raised nothing.
Then(r, s) == Result(s.files, s.err, r.ran \o s.ran)

\* The third statement of the with block, after the first two did r.
WithBlock3(r, dirs, image_filename, env) ==
    IF r.err # NoErr
    THEN r
    ELSE Then(r, extract_partition_boot_files(
                     r.files, dirs, PartitionFilename(image_filename),
                     WithExt(image_filename, ".kernel"),
                     WithExt(image_filename, ".initrd"), env))

\* The second statement of the with block, after image_to_raw did r.
WithBlock2(r, dirs, image_filename, env) ==
    IF r.err # NoErr
    THEN r
    ELSE WithBlock3(Then(r, extract_boot_partition(
                                r.files, dirs, RawFilename(image_filename),
                                PartitionFilename(image_filename), env.fdisk, env.dd)),
                    dirs, image_filename, env)

\* The body of the with block, with the temporary directory in place.
WithBlock(fs, dirs, image_filename, env) ==
    WithBlock2(image_to_raw(fs, dirs, image_filename, RawFilename(image_filename),
                            env.convert),
               dirs, image_filename, env)

\* Leaving the with block with result body: the temporary directory is
\* removed with all it holds, on return and on exception alike.
Cleanup(body, tmp_dir) == Result(RemoveTree(body.files, tmp_dir), body.err, body.ran)

\* extract_boot_files
extract_boot_files(fs, image_filename, env) ==
    IF ~Exists(fs, image_filename)
    THEN Result(fs, FileNotFound(image_filename), <<>>)
    ELSE Cleanup(WithBlock(fs, InitialDirs \cup {TmpDir(image_filename)},
                           image_filename, env),
                 TmpDir(image_filename))

\* ---------------------------------------------------------- iso_extract_file

\* iso_extract_file without the check for empty output.
iso_extract_file_unchecked(exit, stdout) ==
    IF exit # 0
    THEN [err |-> CalledProcessError("isoinfo", exit, EmptyStdout, ""),
          returned |-> <<>>]
    ELSE [err |-> NoErr, returned |-> stdout]

\* iso_extract_file on what isoinfo answered (its exit status and the bytes
\* on its standard output): the exception, and the bytes returned.
iso_extract_file(exit, stdout) ==
    IF exit # 0
    THEN [err |-> CalledProcessError("isoinfo", exit, EmptyStdout, ""),
          returned |-> <<>>]
    ELSE IF stdout = <<>>
    THEN [err |-> Err("failed to extract file", NoPath, <<>>), returned |-> <<>>]
    ELSE [err |-> NoErr, returned |-> stdout]

\* --------------------------------------------------------------- the state

VARIABLES
    files,   \* the files that exist: path |-> "old" (there before the first
             \* call) or "new" (written by a tool)
    image,   \* the image path the caller works on
    last,    \* the last call: operation, inputs, exception, tools run
    prev,    \* a summary of the call before the last one
    calls    \* the number of calls made

vars == <<files, image, last, prev, calls>>

\* The paths the caller passes besides the image: next to it, named after it.
RawPath == WithExt(image, ".raw")

PartitionPath == WithExt(image, ".bootable")

KernelPath == WithExt(image, ".kernel")

InitrdPath == WithExt(image, ".initrd")

\* A listing of one bootable Linux partition.
OkListing ==
    [exit |-> 0, pre |-> Preamble(TRUE, D512, D512, TRUE, D512),
     lines |-> <<HeaderLine, RowLinuxBoot>>]

\* Every tool succeeds.
OkEnv == Env(WriteOk, OkListing, WriteOk, StatOk, StatOk, DumpOk, DumpOk)

\* The record of a call.  pre: the files before it; env: the outcomes of its
\* tools; yielded: the records list_partitions yielded; stdout, returned: the
\* bytes isoinfo printed and the bytes iso_extract_file returned.
Call(op, pre, env, r) ==
    [op |-> op, pre |-> pre, env |-> env, err |-> r.err, ran |-> r.ran,
     yielded |-> <<>>, exit |-> 0, stdout |-> <<>>, returned |-> <<>>]

NoCall == Call("", <<>>, OkEnv, Result(<<>>, NoErr, <<>>))

\* The destinations of an operation: the paths it creates and must not find.
Destinations(op) ==
    CASE op = "create_image" -> {image}
      [] op = "image_to_raw" -> {RawPath}
      [] op = "extract_boot_partition" -> {PartitionPath}
      [] op = "extract_partition_boot_files" -> {KernelPath, InitrdPath}
      [] op = "extract_boot_files" -> {KernelPath, InitrdPath}
      [] OTHER -> {}

\* What is remembered of a call when the next one is made: the operation, the
\* exception, whether one of its destinations was there before it, and
\* whether nothing but the image was there before it.
Summary(c) ==
    [op |-> c.op, err |-> c.err,
     refused |-> \E d \in Destinations(c.op) : Exists(c.pre, d),
     clean |-> DOMAIN c.pre = {Key(image)}]

\* The state after a call with result r.
Finish(op, env, r) ==
    /\ files' = r.files
    /\ last' = Call(op, files, env, r)
    /\ prev' = Summary(last)
    /\ calls' = calls + 1
    /\ UNCHANGED image

\* The caller makes at most limit calls, all of the same operation.
MayCall(op, limit) == calls < limit /\ last.op \in {"", op}

\* The outcomes to choose from for a tool: all of them when the call gets as
\* far as running it, else the one that changes nothing.
Choices(outcomes, default, reached) == IF reached THEN outcomes ELSE {default}

\* The files the caller may find before the first call.
InitialFiles(paths) ==
    UNION {[ks -> {"old"}] : ks \in SUBSET {Key(p) : p \in paths}}

Init ==
    /\ image \in ImagePaths
    /\ files \in InitialFiles({image, RawPath, PartitionPath, KernelPath, InitrdPath})
    /\ last = NoCall
    /\ prev = Summary(NoCall)
    /\ calls = 0

\* ------------------------------------------------------------- the actions

CallCreateImage(limit) ==
    /\ MayCall("create_image", limit)
    /\ \E o \in Choices(WriteOutcomes, WriteOk, ~Exists(files, image)) :
          Finish("create_image", [OkEnv EXCEPT !.convert = o],
                 create_image(files, InitialDirs, image, o))

CallImageToRaw(limit) ==
    /\ MayCall("image_to_raw", limit)
    /\ \E o \in Choices(WriteOutcomes, WriteOk,
                       image_to_raw(files, InitialDirs, image, RawPath, WriteOk).ran # <<>>) :
          Finish("image_to_raw", [OkEnv EXCEPT !.convert = o],
                 image_to_raw(files, InitialDirs, image, RawPath, o))

\* extract_boot_partition(RawPath, PartitionPath) on one of the listings.
CallExtractBootPartition(limit, listings) ==
    /\ MayCall("extract_boot_partition", limit)
    /\ LET Run1(f, d) == extract_boot_partition(files, InitialDirs, RawPath,
                                                PartitionPath, f, d)
       IN  \E f \in Choices(listings, OkListing, Len(Run1(OkListing, WriteOk).ran) >= 1) :
           \E d \in Choices(WriteOutcomes, WriteOk, Len(Run1(f, WriteOk).ran) >= 2) :
              Finish("extract_boot_partition", [OkEnv EXCEPT !.fdisk = f, !.dd = d],
                     Run1(f, d))

CallExtractPartitionBootFiles(limit) ==
    /\ MayCall("extract_partition_boot_files", limit)
    /\ LET Run1(env) == extract_partition_boot_files(files, InitialDirs, PartitionPath,
                                                     KernelPath, InitrdPath, env)
           E(s1, s2, d1, d2) == Env(WriteOk, OkListing, WriteOk, s1, s2, d1, d2)
       IN  \E s1 \in Choices(StatOutcomes, StatOk, Len(Run1(OkEnv).ran) >= 1) :
           \E s2 \in Choices(StatOutcomes, StatOk,
                             Len(Run1(E(s1, StatOk, DumpOk, DumpOk)).ran) >= 2) :
           \E d1 \in Choices(DumpOutcomes, DumpOk,
                             Len(Run1(E(s1, s2, DumpOk, DumpOk)).ran) >= 3) :
           \E d2 \in Choices(DumpOutcomes, DumpOk,
                             Len(Run1(E(s1, s2, d1, DumpOk)).ran) >= 4) :
              Finish("extract_partition_boot_files", E(s1, s2, d1, d2),
                     Run1(E(s1, s2, d1, d2)))

CallExtractBootFiles(limit) ==
    /\ MayCall("extract_boot_files", limit)
    /\ LET Run1(env) == extract_boot_files(files, image, env)
           N(env) == Len(Run1(env).ran)
       IN  \E c \in Choices(WriteOutcomes, WriteOk, N(OkEnv) >= 1) :
           \E f \in Choices(PipelineFdiskOutputs, OkListing,
                            N([OkEnv EXCEPT !.convert = c]) >= 2) :
           \E d \in Choices(WriteOutcomes, WriteOk,
                            N([OkEnv EXCEPT !.convert = c, !.fdisk = f]) >= 3) :
           \E s1 \in Choices(StatOutcomes, StatOk,
                             N(Env(c, f, d, StatOk, StatOk, DumpOk, DumpOk)) >= 4) :
           \E s2 \in Choices(StatOutcomes, StatOk,
                             N(Env(c, f, d, s1, StatOk, DumpOk, DumpOk)) >= 5) :
           \E d1 \in Choices(DumpOutcomes, DumpOk,
                             N(Env(c, f, d, s1, s2, DumpOk, DumpOk)) >= 6) :
           \E d2 \in Choices(DumpOutcomes, DumpOk,
                             N(Env(c, f, d, s1, s2, d1, DumpOk)) >= 7) :
              Finish("extract_boot_files", Env(c, f, d, s1, s2, d1, d2),
                     Run1(Env(c, f, d, s1, s2, d1, d2)))

\* debugfs_command(PartitionPath, command): a stat, or a dump to KernelPath.
CallDebugfsCommand(limit) ==
    /\ MayCall("debugfs_command", limit)
    /\ \E command \in {Stat("/vmlinuz"), Dump("boot/file", KernelPath)} :
       \E o \in Choices(IF command.verb = "stat" THEN StatOutcomes ELSE DumpOutcomes,
                        StatOk, Exists(files, PartitionPath)) :
          LET r == debugfs_command(files, InitialDirs, PartitionPath, command, o)
          IN  Finish("debugfs_command", [OkEnv EXCEPT !.stat1 = o],
                     Result(r.files, r.err, r.ran))

\* list(list_partitions(RawPath)) on one of the listings.
CallListPartitions(limit) ==
    /\ MayCall("list_partitions", limit)
    /\ \E f \in Choices(FdiskOutputs, OkListing, Exists(files, RawPath)) :
          LET r == list_partitions(files, RawPath, f)
          IN  /\ files' = files
              /\ last' = [Call("list_partitions", files, [OkEnv EXCEPT !.fdisk = f],
                               Result(files, r.err, r.ran))
                          EXCEPT !.yielded = r.yielded]
              /\ prev' = Summary(last)
              /\ calls' = calls + 1
              /\ UNCHANGED image

\* iso_extract_file on what isoinfo answered.
IsoBytes == {0, 10, 70, 79}

CallIsoExtractFile(limit) ==
    /\ MayCall("iso_extract_file", limit)
    /\ \E exit \in {0, 1}, stdout \in SeqsUpTo(IsoBytes, MaxBytes) :
          LET r == iso_extract_file(exit, stdout)
          IN  /\ last' = [Call("iso_extract_file", files, OkEnv,
                               Result(files, r.err,
                                      <<[Invocation("isoinfo", NoPath, NoPath)
                                         EXCEPT !.exit = exit]>>))
                          EXCEPT !.exit = exit, !.stdout = stdout,
                                 !.returned = r.returned]
              /\ prev' = Summary(last)
              /\ calls' = calls + 1
              /\ UNCHANGED <<files, image>>

\* ------------------------------------------------------ the specifications

\* The operations on files, each called up to MaxCalls times in a row.
Next ==
    \/ CallCreateImage(MaxCalls)
    \/ CallImageToRaw(MaxCalls)
    \/ CallExtractBootPartition(MaxCalls, PipelineFdiskOutputs)
    \/ CallExtractPartitionBootFiles(MaxCalls)
    \/ CallExtractBootFiles(MaxCalls)
    \/ CallDebugfsCommand(MaxCalls)

Spec == Init /\ [][Next]_vars

\* The partition table parser and the partition extractor on every listing.
InitParse ==
    /\ image \in ImagePaths
    /\ files \in InitialFiles({RawPath, PartitionPath})
    /\ last = NoCall
    /\ prev = Summary(NoCall)
    /\ calls = 0

NextParse ==
    \/ CallListPartitions(1)
    \/ CallExtractBootPartition(1, FdiskOutputs)

SpecParse == InitParse /\ [][NextParse]_vars

\* The ISO file extractor.
InitIso ==
    /\ image \in ImagePaths
    /\ files \in InitialFiles({image})
    /\ last = NoCall
    /\ prev = Summary(NoCall)
    /\ calls = 0

NextIso == CallIsoExtractFile(1)

SpecIso == InitIso /\ [][NextIso]_vars

\* ----------------------------------------------------------------- claims

\* Whether path p names a file the last call found and left as it was.
Untouched(p) ==
    Exists(last.pre, p) /\ Exists(files, p) /\ files[Key(p)] = last.pre[Key(p)]

\* Every tool of the last call that failed said so by its exit status and
\* left no partial output behind.
FailuresAreClean ==
    /\ \A i \in 1..Len(last.ran) : last.ran[i].stderr # "" => last.ran[i].exit # 0
    /\ \A o \in {last.env.convert, last.env.dd, last.env.dump1, last.env.dump2} :
          o.exit # 0 => ~o.wrote

\* C1: after extract_partition_boot_files or extract_boot_files, whatever the
\* outcome (a failure of the second dump after the first included), the
\* kernel file and the initrd file both exist or neither does.  Stated for
\* calls that found neither of them, and whose tools fail cleanly.
C1_NoPartialSuccess ==
    (/\ last.op \in {"extract_partition_boot_files", "extract_boot_files"}
     /\ ~Exists(last.pre, KernelPath)
     /\ ~Exists(last.pre, InitrdPath)
     /\ FailuresAreClean)
    => (Exists(files, KernelPath) <=> Exists(files, InitrdPath))

\* The operations that create or extract to a path.
ToPathOperations ==
    {"create_image", "image_to_raw", "extract_boot_partition",
     "extract_partition_boot_files"}

\* C2: a create/extract-to-path operation called with a destination that
\* exists fails with "already exists" (or "file not found" for its input),
\* runs no tool and changes no file; called again, it fails with the same
\* exception, again running no tool and changing no file.
C2_ExistingDestinationRefused ==
    /\ (/\ last.op \in ToPathOperations
        /\ \E d \in Destinations(last.op) : Exists(last.pre, d))
       => /\ last.err.kind \in {"already exists", "file not found"}
          /\ last.err.kind = "already exists"
                => last.err.path \in Destinations(last.op) /\ Untouched(last.err.path)
          /\ last.err.kind = "file not found" => ~Exists(files, last.err.path)
          /\ last.ran = <<>>
          /\ files = last.pre
    /\ (/\ last.op \in ToPathOperations
        /\ prev.op = last.op
        /\ prev.refused)
       => /\ last.err = prev.err
          /\ last.err # NoErr
          /\ last.ran = <<>>
          /\ files = last.pre

\* C2 witness: extract_partition_boot_files called twice with the initrd
\* destination in place, refused twice.
C2_Witness ==
    /\ calls = 2
    /\ last.op = "extract_partition_boot_files"
    /\ prev.op = last.op
    /\ prev.refused
    /\ prev.err = AlreadyExists(InitrdPath)
    /\ last.err = AlreadyExists(InitrdPath)
    /\ files[Key(InitrdPath)] = "old"

\* C3: after extract_boot_files, returned or raised, nothing it created is
\* left but the kernel and initrd files: the raw image copy and the partition
\* image copy lie in the temporary directory and are gone with it.
C3_NoIntermediateLeft ==
    last.op = "extract_boot_files"
    => \A k \in DOMAIN files :
          \/ k \in {Key(KernelPath), Key(InitrdPath)}
          \/ k \in DOMAIN last.pre /\ files[k] = last.pre[k]

\* The records list_partitions yields from the listing of the last call.
C4_Table == list_partitions(last.pre, RawPath, last.env.fdisk).yielded

\* The rows of C4_Table whose type is exactly "Linux" and that are bootable.
C4_Qualifying ==
    {i \in 1..Len(C4_Table) :
        C4_Table[i].type = <<"L", "i", "n", "u", "x">> /\ C4_Table[i].bootable = TRUE}

\* The dd runs of the last call.
C4_DdRuns == {i \in 1..Len(last.ran) : last.ran[i].tool = "dd"}

C5_SectorSizeConsistent ==
    last.op = "list_partitions"
    => LET pre == last.env.fdisk.pre
       IN  /\ last.yielded # <<>>
              => /\ pre.has_sector /\ pre.has_units
                 /\ ToInt(pre.logical) = ToInt(pre.physical)
                 /\ ToInt(pre.logical) = ToInt(pre.units)
                 /\ \A i \in 1..Len(last.yielded) :
                       last.yielded[i].sector_size = ToInt(pre.units)
           /\ (/\ last.ran # <<>>
               /\ last.env.fdisk.exit = 0
               /\ pre.has_sector /\ pre.has_units
               /\ \/ ToInt(pre.logical) # ToInt(pre.physical)
                  \/ ToInt(pre.logical) # ToInt(pre.units))
              => /\ last.yielded = <<>>
                 /\ last.err.kind \in
                       {"partition table logical and physical sector sizes differ",
                        "partition table sector size and unit size differ"}

\* C5 witness: two records yielded from a listing of 4096-byte sectors.
C5_Witness ==
    /\ last.op = "list_partitions"
    /\ last.err = NoErr
    /\ Len(last.yielded) = 2
    /\ last.yielded[1].sector_size = 4096
    /\ last.yielded[2].sector_size = 4096

\* C6, as claimed: list_partitions yields the complete sequence or fails
\* before yielding any record, wherever the malformed row is.
C6_FailsBeforeAnyRecord ==
    (last.op = "list_partitions" /\ last.err # NoErr) => last.yielded = <<>>

\* The lines of the last listing that lie in the table (after a header line
\* and no header line themselves), and those of them no data row matches.
C6_InTable ==
    LET lines == last.env.fdisk.lines
    IN  {i \in 1..Len(lines) :
            /\ FullMatch(header_regexp, lines[i]) = NoMatch
            /\ \E h \in 1..(i - 1) : FullMatch(header_regexp, lines[h]) # NoMatch}

C6_Malformed ==
    {i \in C6_InTable : FullMatch(data_regexp, last.env.fdisk.lines[i]) = NoMatch}

\* C6, amended: list_partitions fails before yielding any record when the
\* image is missing, fdisk fails or the preamble is missing or inconsistent;
\* when a row of the table does not match, it fails at the first such row,
\* naming it, after yielding one record for each row before it; with no such
\* row it yields one record for each row.
C6_FailsAtMalformedRow ==
    last.op = "list_partitions"
    => /\ last.err.kind \notin {"", "unable to parse partition line"}
          => last.yielded = <<>>
       /\ (last.err.kind \in {"", "unable to parse partition line"} /\ last.ran # <<>>)
          => /\ C6_Malformed = {}
                => /\ last.err = NoErr
                   /\ Len(last.yielded) = Cardinality(C6_InTable)
             /\ C6_Malformed # {}
                => \E b \in C6_Malformed :
                      /\ \A c \in C6_Malformed : b <= c
                      /\ last.err.kind = "unable to parse partition line"
                      /\ last.err.text = last.env.fdisk.lines[b]
                      /\ Len(last.yielded)
                            = Cardinality({i \in C6_InTable : i < b})

\* C6 witness: the listing "Linux 2 8 *" then "Linux 2 8": one record yielded,
\* then the parse error on the second row.
C6_Witness ==
    /\ last.op = "list_partitions"
    /\ last.env.fdisk.lines = <<HeaderLine, RowLinuxBoot, RowLinuxBare>>
    /\ last.err.kind = "unable to parse partition line"
    /\ last.err.text = RowLinuxBare
    /\ Len(last.yielded) = 1
    /\ last.yielded[1].start_sector = 2

\* C7, as claimed: iso_extract_file returns the bytes isoinfo printed when
\* there are some, fails with "failed to extract file" whenever there are
\* none, and never returns empty bytes.
C7_ReturnsOutputOrFails ==
    last.op = "iso_extract_file"
    => /\ last.stdout # <<>> => last.err = NoErr /\ last.returned = last.stdout
       /\ last.stdout = <<>> => last.err.kind = "failed to extract file"
       /\ last.err = NoErr => last.returned # <<>>

\* C7, amended: when isoinfo exits with status zero, iso_extract_file returns
\* the bytes it printed when there are some and fails with "failed to extract
\* file" when there are none; when isoinfo exits with another status the call
\* fails with CalledProcessError whatever was printed; it never returns empty
\* bytes.
C7_ReturnsOutputOrFailsOnExitZero ==
    last.op = "iso_extract_file"
    => /\ (last.exit = 0 /\ last.stdout # <<>>)
          => last.err = NoErr /\ last.returned = last.stdout
       /\ (last.exit = 0 /\ last.stdout = <<>>)
          => last.err.kind = "failed to extract file"
       /\ last.exit # 0 => last.err.kind = "CalledProcessError"
       /\ last.err = NoErr => last.returned # <<>>

\* C7 witness: isoinfo printed "FOO\n" and exited with status zero.
C7_Witness ==
    /\ last.op = "iso_extract_file"
    /\ last.exit = 0
    /\ last.stdout = <<70, 79, 79, 10>>
    /\ last.err = NoErr
    /\ last.returned = <<70, 79, 79, 10>>

\* C8: a debugfs run that exits with a non-zero status or writes to standard
\* error is a failure: debugfs_command raises CalledProcessError with the
\* captured stdout and stderr, and extract_partition_boot_files runs no
\* command after one that failed.
C8_DebugfsFailureDetected ==
    /\ (/\ last.op = "debugfs_command"
        /\ last.ran # <<>>
        /\ last.ran[1].exit # 0 \/ last.ran[1].stderr # "")
       => /\ last.err.kind = "CalledProcessError"
          /\ last.err.stdout = last.env.stat1.stdout
          /\ last.err.stderr = last.env.stat1.stderr
    /\ last.op = "extract_partition_boot_files"
       => \A i \in 1..(Len(last.ran) - 1) :
             last.ran[i].exit = 0 /\ last.ran[i].stderr = ""

\* C9: when extract_boot_files failed because a tool failed, calling it again
\* with the same image and every tool succeeding succeeds and produces the
\* kernel and initrd files.  Stated for a first call that found nothing but
\* the image.
C9_RetrySucceeds ==
    (/\ last.op = "extract_boot_files"
     /\ prev.op = "extract_boot_files"
     /\ prev.clean
     /\ prev.err.kind = "CalledProcessError"
     /\ last.env = OkEnv)
    => /\ last.err = NoErr
       /\ Exists(files, KernelPath)
       /\ Exists(files, InitrdPath)

\* C10: extract_boot_files called when the kernel or the initrd output path
\* exists fails without having run qemu-img, fdisk, dd or debugfs and without
\* having created a file.
C10_OutputsCheckedFirst ==
    (/\ last.op = "extract_boot_files"
     /\ Exists(last.pre, image)
     /\ Exists(last.pre, KernelPath) \/ Exists(last.pre, InitrdPath))
    => /\ last.err # NoErr
       /\ last.ran = <<>>
       /\ files = last.pre

\* The table line from which the i-th record of the last listing was built.
C11_Row(i) ==
    LET j == CHOOSE j \in C6_InTable : Cardinality({k \in C6_InTable : k < j}) = i - 1
    IN  last.env.fdisk.lines[j]

\* A row with type, start and sector count and an empty boot column: nothing
\* or only whitespace after the sector count.
C11_FlagAbsent(line) ==
    FullMatch(<<Plus("."), Plus("\\s"), Plus("[0-9]"), Plus("\\s"), Plus("[0-9]"),
                [cls |-> "\\s", min |-> 0, max |-> Unbounded]>>, line) # NoMatch

\* A row with type, start and sector count and the marker * in the boot column.
C11_FlagSet(line) ==
    FullMatch(<<Plus("."), Plus("\\s"), Plus("[0-9]"), Plus("\\s"), Plus("[0-9]"),
                Plus("\\s"), Lit("*")>>, line) # NoMatch

\* C11: in list_partitions a row whose boot column is empty never causes a
\* parse error, also when it ends right after the sector count, and gives a
\* record with bootable = FALSE; a row whose boot column holds * gives a
\* record with bootable = TRUE.
C11_BootFlagAbsenceIsFalse ==
    last.op = "list_partitions"
    => /\ last.err.kind = "unable to parse partition line"
          => ~C11_FlagAbsent(last.err.text)
       /\ \A i \in 1..Len(last.yielded) :
             /\ C11_FlagAbsent(C11_Row(i)) => last.yielded[i].bootable = FALSE
             /\ C11_FlagSet(C11_Row(i)) => last.yielded[i].bootable = TRUE

====
